---- MODULE Spec2Model ----
(***************************************************************************)
(* Fixed-point coefficient codec of the FIR filter project:                *)
(*   python/hardware_integration.py  quantize_coefficients,                *)
(*                                   update_verilog_file                   *)
(*   python/fir_verification.py      verify_verilog_against_matlab,        *)
(*                                   extract_verilog_coefficients,         *)
(*                                   compare_filter_performance,           *)
(*                                   generate_optimized_coefficients,      *)
(*                                   create_symmetric_coeffs               *)
(*   python/main.py                  create_all_plots                      *)
(*   Python Fixed Conversion.py      (src/unnamed/part_000)                *)
(*                                                                         *)
(* Text is modelled at character level: a line is a sequence of            *)
(* one-character strings, a file is a sequence of lines.                   *)
(***************************************************************************)
EXTENDS Integers, Sequences, FiniteSets, TLC

VARIABLES
    pc,                 \* position of the running routine
    raw,                \* codec: the signed integer being encoded
    hex_text,           \* codec: the literal written for raw
    int_val,            \* codec: the value decoded from hex_text
    coef,               \* quantizer: the real coefficient, [big, num]
    bits,               \* quantizer: the bits argument
    format,             \* quantizer: the format argument
    quantized,          \* quantizer: quantize_coefficients' first result
    coeffs_fixed,       \* conversion script: its int16 value
    half_coeffs,        \* folder: the half (folded) vector
    full,               \* folder: create_symmetric_coeffs' result
    folded_coeffs,      \* folder: the first taps taken back from full
    python_coefficients,\* rewrite: the argument of update_verilog_file
    disk,               \* rewrite: the stored Verilog file, a sequence of lines
    orig_text,          \* rewrite: the file as it was when the call began
    quantized_coeffs,   \* rewrite: quantized folded coefficients
    lines,              \* rewrite: f.readlines()
    new_lines,          \* rewrite: the rewritten text
    coeff_index,        \* rewrite: number of lines replaced
    rewritten,          \* rewrite: positions of the lines replaced
    matlab_coeffs,      \* gain: the loaded coefficients, in tenths
    total_compensation, \* gain: the scale factor, [num, den]
    opt_coeffs_fixed,   \* gain: coeffs_fixed of generate_optimized_coefficients
    verdict,            \* gain: the line printed about the final gain
    max_error,          \* compare: max(abs(mag_matlab - mag_verilog)), [num, den]
    classification,     \* compare: the class printed for max_error
    verilog_coeffs,     \* extract: the values returned, each [num, den]
    entry,              \* pipeline: the script that was started
    csv_present,        \* pipeline: fir_coefficients.csv exists
    verilog_present,    \* pipeline: the Verilog source file exists
    executed,           \* pipeline: the steps that ran
    reported,           \* pipeline: the artifacts a message named as missing
    literals            \* paths: the literal each float-to-hex path prints

codecVars == <<raw, hex_text, int_val>>

quantVars == <<coef, bits, format, quantized, coeffs_fixed>>

foldVars == <<half_coeffs, full, folded_coeffs>>

rewriteVars == <<python_coefficients, disk, orig_text, quantized_coeffs, lines,
                 new_lines, coeff_index, rewritten>>

gainVars == <<matlab_coeffs, total_compensation, opt_coeffs_fixed, verdict>>

compareVars == <<max_error, classification>>

extractVars == <<verilog_coeffs>>

pipeVars == <<entry, csv_present, verilog_present, executed, reported>>

pathVars == <<literals>>

toolVars == <<compareVars, extractVars, pipeVars, pathVars>>

vars == <<pc, codecVars, quantVars, foldVars, rewriteVars, gainVars, toolVars>>

(***************************************************************************)
(* Program constants                                                       *)
(***************************************************************************)
INT16_MIN == -32768
INT16_MAX == 32767
MASK16 == 65535
SIGN16 == 32768
WRAP16 == 65536

(***************************************************************************)
(* Characters and hexadecimal text                                         *)
(***************************************************************************)
UpperHex == <<"0","1","2","3","4","5","6","7","8","9","A","B","C","D","E","F">>

LowerHex == <<"0","1","2","3","4","5","6","7","8","9","a","b","c","d","e","f">>

ValueError == -100000

\* Value of one character as a base-16 digit, ValueError when it is none.
HexDigitValue(ch) ==
    IF \E k \in 1..16 : UpperHex[k] = ch
    THEN (CHOOSE k \in 1..16 : UpperHex[k] = ch) - 1
    ELSE IF \E k \in 1..16 : LowerHex[k] = ch
    THEN (CHOOSE k \in 1..16 : LowerHex[k] = ch) - 1
    ELSE ValueError

RECURSIVE HexDigitsOf(_)
\* The hexadecimal digits of n >= 0, most significant first, no padding.
HexDigitsOf(n) ==
    IF n < 16 THEN <<UpperHex[n + 1]>>
    ELSE HexDigitsOf(n \div 16) \o <<UpperHex[(n % 16) + 1]>>

RECURSIVE ZeroPad(_, _)
ZeroPad(digits, width) ==
    IF Len(digits) >= width THEN digits ELSE ZeroPad(<<"0">> \o digits, width)

\* Python's format spec 04X: uppercase hex, zero-padded to a total width of 4;
\* the sign of a negative number takes one of the four columns.
Format04X(n) ==
    IF n < 0 THEN <<"-">> \o ZeroPad(HexDigitsOf(-n), 3)
    ELSE ZeroPad(HexDigitsOf(n), 4)

RECURSIVE IntBase16Acc(_, _)
IntBase16Acc(s, acc) ==
    IF s = <<>> THEN acc
    ELSE IF HexDigitValue(Head(s)) = ValueError THEN ValueError
    ELSE IntBase16Acc(Tail(s), acc * 16 + HexDigitValue(Head(s)))

Whitespace == {" ", "\n", "\t", "\r", "\f"}

RECURSIVE LStrip(_)
LStrip(s) ==
    IF s # <<>> /\ Head(s) \in Whitespace THEN LStrip(Tail(s)) ELSE s

RECURSIVE RStrip(_)
RStrip(s) ==
    IF s # <<>> /\ s[Len(s)] \in Whitespace
    THEN RStrip(SubSeq(s, 1, Len(s) - 1)) ELSE s

RECURSIVE UnderscoresOk(_, _)
\* An underscore stands only between two digits, or between the base prefix
\* and the first digit.
UnderscoresOk(s, afterDigit) ==
    IF s = <<>> THEN TRUE
    ELSE IF Head(s) = "_"
    THEN /\ afterDigit
         /\ Tail(s) # <<>>
         /\ Head(Tail(s)) # "_"
         /\ UnderscoresOk(Tail(s), FALSE)
    ELSE UnderscoresOk(Tail(s), TRUE)

\* int(s, 16): surrounding whitespace is dropped, then an optional sign, an
\* optional 0x or 0X prefix and hexadecimal digits, with single underscores
\* between them; ValueError on any other text and on the empty string.
IntBase16(s) ==
    LET t == RStrip(LStrip(s))
        signed == t # <<>> /\ Head(t) \in {"+", "-"}
        body == IF signed THEN Tail(t) ELSE t
        prefixed == Len(body) >= 2 /\ body[1] = "0" /\ body[2] \in {"x", "X"}
        rest == IF prefixed THEN SubSeq(body, 3, Len(body)) ELSE body
        digits == SelectSeq(rest, LAMBDA ch : ch # "_")
        v == IF digits = <<>> \/ ~UnderscoresOk(rest, prefixed)
             THEN ValueError
             ELSE IntBase16Acc(digits, 0)
    IN  IF v = ValueError THEN ValueError
        ELSE IF signed /\ Head(t) = "-" THEN -v
        ELSE v

\* s[:n]
Take(s, n) ==
    SubSeq(s, 1, IF Len(s) < n THEN Len(s) ELSE n)

(***************************************************************************)
(* HexCodec: update_verilog_file's encoding, extract's decoding             *)
(***************************************************************************)
\* Mutant: the negative branch keeps the signed value.
HexValNoMask(coeff) ==
    coeff

\* hardware_integration.py:101-104: coeff & 0xFFFF when coeff < 0, else coeff.
HexVal(coeff) ==
    IF coeff < 0 THEN coeff % (MASK16 + 1) ELSE coeff

\* The literal of hardware_integration.py:106, {hex_val:04X}.
EncodeLiteral(coeff) ==
    Format04X(HexVal(coeff))

\* Mutant: the sign test is off by one bit.
DecodeLiteralLateSign(payload) ==
    LET v == IntBase16(Take(payload, 4))
    IN  IF v = ValueError THEN ValueError
        ELSE IF v > SIGN16 THEN v - WRAP16 ELSE v

\* fir_verification.py:59-62: the first four characters after 16'h parsed as
\* unsigned hex, minus 0x10000 when >= 0x8000.  ValueError stands for the
\* exception int() raises.
DecodeLiteral(payload) ==
    LET v == IntBase16(Take(payload, 4))
    IN  IF v = ValueError THEN ValueError
        ELSE IF v >= SIGN16 THEN v - WRAP16 ELSE v

(***************************************************************************)
(* Real numbers.  A coefficient is  big * 2^23 + num / 1024 : multiples of *)
(* a quarter of a Q8.8 LSB, plus multiples of 2^23 for the values whose    *)
(* scaled value leaves the int32 range.  A scaled value is                 *)
(* hi * 2^27 + num / den, an integer-valued float is hi * 2^27 + int.      *)
(* Throughout, |num / den| and |int| stay below 2^26.                      *)
(***************************************************************************)
Resolution == 4 * 256

HiUnit == 2 ^ 27

INT32_MAX == 2147483647

INT32_MIN == (-INT32_MAX) - 1

Abs(x) ==
    IF x < 0 THEN -x ELSE x

\* Round p / q (q > 0) to the nearest integer, ties to the even one: np.round.
RoundHalfEven(p, q) ==
    LET f == p \div q
        r == p % q
    IN  IF 2 * r < q THEN f
        ELSE IF 2 * r > q THEN f + 1
        ELSE IF f % 2 = 0 THEN f ELSE f + 1

\* Mutant: ties (and everything else) rounded toward minus infinity.
RoundFloor(p, q) ==
    p \div q

\* hardware_integration.py:15-20
ScaleOf(b, fmt) ==
    IF fmt = "q8.8" THEN 2 ^ 8
    ELSE IF fmt = "q4.12" THEN 2 ^ 12
    ELSE 2 ^ (b \div 2)

\* hardware_integration.py:22, coefficients * scale (scale is a power of two
\* and at least 16, so the product is exact).
Scaled(c, scale) ==
    [hi  |-> c.big * (scale \div 16),
     num |-> IF scale >= Resolution THEN c.num * (scale \div Resolution) ELSE c.num,
     den |-> IF scale >= Resolution THEN 1 ELSE Resolution \div scale]

\* Mutant of NpRound: truncation instead of rounding.
NpRoundFloor(x) ==
    [hi |-> x.hi, int |-> RoundFloor(x.num, x.den)]

\* np.round of a float
NpRound(x) ==
    [hi |-> x.hi, int |-> RoundHalfEven(x.num, x.den)]

\* Whether the integer-valued float x is representable in int32.
InInt32(x) ==
    \/ x.hi \in -15..15
    \/ x.hi = 16 /\ x.int < 0
    \/ x.hi = -16 /\ x.int >= 0

\* The int32 of hi * 2^27 + int, for a value inside the int32 range.
Int32Value(hi, int) ==
    IF hi = 16 THEN INT32_MAX + (int + 1)
    ELSE IF hi = -16 THEN INT32_MIN + int
    ELSE hi * HiUnit + int

Sat32(x) ==
    IF x.hi > 0 THEN INT32_MAX ELSE INT32_MIN

\* .astype(np.int32) of a float64 (hardware_integration.py:23).  Out of the
\* int32 range the C cast is undefined: the build yields the x86 "integer
\* indefinite" value (INT32_MIN) or a saturated value.
AstypeInt32(x) ==
    IF InInt32(x) THEN {Int32Value(x.hi, x.int)}
    ELSE {INT32_MIN, Sat32(x)}

\* The low 16 bits of v read as a signed 16-bit integer.
SignedLow16(v) ==
    LET u == v % WRAP16
    IN  IF u >= SIGN16 THEN u - WRAP16 ELSE u

InInt16(x) ==
    x.hi = 0 /\ x.int >= INT16_MIN /\ x.int <= INT16_MAX

\* .astype(np.int16) of a float64 (part_000:6).  Out of the int16 range the
\* cast is undefined: a 32-bit conversion truncated to 16 bits (which wraps),
\* or a saturated value.
AstypeInt16(x) ==
    IF InInt16(x) THEN {x.int}
    ELSE {SignedLow16(v) : v \in AstypeInt32(x)}
         \cup {IF x.hi > 0 \/ (x.hi = 0 /\ x.int > 0) THEN INT16_MAX ELSE INT16_MIN}

\* np.clip
Clip(v, lo, hi) ==
    IF v < lo THEN lo ELSE IF v > hi THEN hi ELSE v

\* hardware_integration.py:25-26
MaxVal(b) ==
    2 ^ (b - 1) - 1

MinVal(b) ==
    -(2 ^ (b - 1))

\* hardware_integration.py:22-27: the possible values of quantized for one
\* coefficient.
QuantizeCoefficient(c, b, fmt) ==
    {Clip(v, MinVal(b), MaxVal(b)) :
        v \in AstypeInt32(NpRound(Scaled(c, ScaleOf(b, fmt))))}

\* part_000:6: the possible values of coeffs_fixed for one coefficient.
FixedConversion(c) ==
    AstypeInt16(NpRound(Scaled(c, 2 ^ 8)))

(***************************************************************************)
(* Inputs of the quantizer                                                 *)
(***************************************************************************)
MaxNum == 6
MaxEdge == 3
MaxBig == 1

\* hardware_integration.py:41 (16 is also the default of line 11)
BitWidths == {8, 12, 16, 24}

Formats == {"q8.8", "q4.12", "other"}

\* 2^(b-1) / scale in units of 1 / Resolution: where the scaled value meets
\* the end of the b-bit range.
EdgeNum(b, scale) ==
    IF scale >= Resolution THEN (2 ^ (b - 1)) \div (scale \div Resolution)
    ELSE (2 ^ (b - 1)) * (Resolution \div scale)

CoefSamples(b, fmt) ==
    {[big |-> 0, num |-> n] : n \in -MaxNum..MaxNum}
    \cup {[big |-> 0, num |-> s * EdgeNum(b, ScaleOf(b, fmt)) + d] :
            s \in {-1, 1}, d \in -MaxEdge..MaxEdge}
    \cup {[big |-> 0, num |-> s * EdgeNum(16, 2 ^ 8) + d] :
            s \in {-1, 1}, d \in -MaxEdge..MaxEdge}
    \cup {[big |-> g, num |-> n] : g \in (-MaxBig..MaxBig) \ {0}, n \in -MaxNum..MaxNum}

CompareIdle ==
    /\ max_error = [num |-> 0, den |-> 1]
    /\ classification = ""

ExtractIdle ==
    verilog_coeffs = <<>>

PipeIdle ==
    /\ entry = ""
    /\ csv_present = TRUE
    /\ verilog_present = TRUE
    /\ executed = {}
    /\ reported = {}

PathIdle ==
    literals = [update |-> <<>>, optimized |-> <<>>, script |-> <<>>]

ToolIdle ==
    /\ CompareIdle
    /\ ExtractIdle
    /\ PipeIdle
    /\ PathIdle

CodecIdle ==
    /\ raw = 0
    /\ hex_text = <<>>
    /\ int_val = 0

GainIdle ==
    /\ matlab_coeffs = <<>>
    /\ total_compensation = [num |-> 1, den |-> 1]
    /\ opt_coeffs_fixed = <<>>
    /\ verdict = ""

RewriteIdle ==
    /\ python_coefficients = <<>>
    /\ disk = <<>>
    /\ orig_text = <<>>
    /\ quantized_coeffs = <<>>
    /\ lines = <<>>
    /\ new_lines = <<>>
    /\ coeff_index = 0
    /\ rewritten = {}

FoldIdle ==
    /\ half_coeffs = <<>>
    /\ full = <<>>
    /\ folded_coeffs = <<>>

QuantIdle ==
    /\ coef = [big |-> 0, num |-> 0]
    /\ bits = 16
    /\ format = "q8.8"
    /\ quantized = 0
    /\ coeffs_fixed = 0

QuantInit ==
    /\ pc = "quant_start"
    /\ bits \in BitWidths
    /\ format \in Formats
    /\ coef \in CoefSamples(bits, format)
    /\ quantized = 0
    /\ coeffs_fixed = 0
    /\ CodecIdle
    /\ FoldIdle
    /\ RewriteIdle
    /\ GainIdle
    /\ ToolIdle

\* quantize_coefficients on one coefficient
Quantize ==
    /\ pc = "quant_start"
    /\ quantized' \in QuantizeCoefficient(coef, bits, format)
    /\ pc' = "quantized"
    /\ UNCHANGED <<coef, bits, format, coeffs_fixed, codecVars, foldVars, rewriteVars, gainVars, toolVars>>

\* the conversion script on one coefficient
ScriptConvert ==
    /\ pc = "quant_start"
    /\ coeffs_fixed' \in FixedConversion(coef)
    /\ pc' = "script_converted"
    /\ UNCHANGED <<coef, bits, format, quantized, codecVars, foldVars, rewriteVars, gainVars, toolVars>>

\* fir_verification.py:216 for one compensated coefficient c:
\* int(np.clip(np.round(c * 256), -32768, 32767)), the clip done on the float
OptimizedFixed(c) ==
    LET x == NpRound(Scaled(c, 2 ^ 8))
    IN  IF x.hi > 0 THEN INT16_MAX
        ELSE IF x.hi < 0 THEN INT16_MIN
        ELSE Clip(x.int, INT16_MIN, INT16_MAX)

\* part_000:10, np.uint16(coeff) & 0xFFFF of an int16 coeff
Uint16(v) ==
    (v % WRAP16) % (MASK16 + 1)

\* update_verilog_file's path for one coefficient: quantize_coefficients
\* with the defaults (line 88), then lines 101-106
PathUpdate ==
    /\ pc = "quant_start"
    /\ bits = 16
    /\ format = "q8.8"
    /\ \E q \in QuantizeCoefficient(coef, 16, "q8.8") :
          literals' = [literals EXCEPT !.update = EncodeLiteral(q)]
    /\ pc' = "hex_update"
    /\ UNCHANGED <<quantVars, codecVars, foldVars, rewriteVars, gainVars,
                   compareVars, extractVars, pipeVars>>

\* generate_optimized_coefficients' path, fir_verification.py:216-225
PathOptimized ==
    /\ pc = "hex_update"
    /\ literals' = [literals EXCEPT
                       !.optimized = Format04X(HexVal(OptimizedFixed(coef)))]
    /\ pc' = "hex_optimized"
    /\ UNCHANGED <<quantVars, codecVars, foldVars, rewriteVars, gainVars,
                   compareVars, extractVars, pipeVars>>

\* the conversion script's path, part_000:6-11
PathScript ==
    /\ pc = "hex_optimized"
    /\ \E f \in FixedConversion(coef) :
          literals' = [literals EXCEPT !.script = Format04X(Uint16(f))]
    /\ pc' = "hex_script"
    /\ UNCHANGED <<quantVars, codecVars, foldVars, rewriteVars, gainVars,
                   compareVars, extractVars, pipeVars>>

QuantNext ==
    \/ Quantize
    \/ ScriptConvert
    \/ PathUpdate
    \/ PathOptimized
    \/ PathScript

SpecQuant == QuantInit /\ [][QuantNext]_vars

\* clamp(round_half_to_even(c * scale), lo, hi) over the reals
IdealRaw(c, scale, lo, hi) ==
    LET x == NpRound(Scaled(c, scale))
    IN  IF x.hi > 0 THEN hi
        ELSE IF x.hi < 0 THEN lo
        ELSE Clip(x.int, lo, hi)

\* C5: the quantizer's raw value is clamp(round_half_to_even(c * scale),
\* min_val, max_val) for every real coefficient: a scaled value beyond the
\* range saturates, it does not wrap.
SilentSaturation ==
    pc = "quantized" =>
        quantized = IdealRaw(coef, ScaleOf(bits, format), MinVal(bits), MaxVal(bits))

\* The same statement for the conversion script, which casts to int16 and
\* never clips.
ScriptSaturation ==
    pc = "script_converted" =>
        coeffs_fixed = IdealRaw(coef, 2 ^ 8, INT16_MIN, INT16_MAX)

\* C6: without saturation the reconstructed value quantized / scale is within
\* half an LSB of the coefficient: |c - reconstructed| <= 1 / (2 * scale).
QuantizeBound ==
    LET scale == ScaleOf(bits, format)
        x == Scaled(coef, scale)
    IN  (/\ pc = "quantized"
         /\ x.hi = 0
         /\ x.num >= MinVal(bits) * x.den
         /\ x.num <= MaxVal(bits) * x.den)
        => 2 * Abs(x.num - quantized * x.den) <= x.den

QuantizeBoundWitness ==
    /\ pc = "quantized"
    /\ format = "q8.8"
    /\ coef = [big |-> 0, num |-> 6]
    /\ quantized = 2

(***************************************************************************)
(* SymmetricFolder                                                         *)
(***************************************************************************)
FOLDED_TAPS == 6

MaxHalf == 7
MaxTap == 1

\* Mutant: the mirrored half starts one tap late (h[5] repeated).
CreateSymmetricCoeffsShifted(h) ==
    <<h[1], h[2], h[3], h[4], h[5], h[6], h[6], h[5], h[4], h[3], h[2]>>

\* fir_verification.py:240-245, for a half vector with the six indexed taps
\* (the same expression is written out in main.py:140-145).  Indices are
\* one-based here.
CreateSymmetricCoeffs(h) ==
    <<h[1], h[2], h[3], h[4], h[5], h[6], h[5], h[4], h[3], h[2], h[1]>>

\* Whether half_coeffs[0] .. half_coeffs[5] all exist; otherwise indexing
\* raises IndexError.
IndexesExist(h) ==
    Len(h) >= FOLDED_TAPS

\* Mutant: one tap too few is kept.
FoldShort(v) ==
    IF Len(v) >= FOLDED_TAPS THEN Take(v, FOLDED_TAPS - 1) ELSE v

\* hardware_integration.py:86: python_coefficients[:6] if there are at least
\* 6, else all of them.
Fold(v) ==
    IF Len(v) >= FOLDED_TAPS THEN Take(v, FOLDED_TAPS) ELSE v

HalfVectors ==
    UNION {[1..k -> 0..MaxTap] : k \in 1..MaxHalf}

FoldInit ==
    /\ pc = "fold_start"
    /\ half_coeffs \in HalfVectors
    /\ full = <<>>
    /\ folded_coeffs = <<>>
    /\ CodecIdle
    /\ QuantIdle
    /\ RewriteIdle
    /\ GainIdle
    /\ ToolIdle

Unfold ==
    /\ pc = "fold_start"
    /\ IndexesExist(half_coeffs)
    /\ full' = CreateSymmetricCoeffs(half_coeffs)
    /\ pc' = "unfolded"
    /\ UNCHANGED <<half_coeffs, folded_coeffs, codecVars, quantVars, rewriteVars, gainVars, toolVars>>

UnfoldRaises ==
    /\ pc = "fold_start"
    /\ ~IndexesExist(half_coeffs)
    /\ pc' = "IndexError"
    /\ UNCHANGED <<foldVars, codecVars, quantVars, rewriteVars, gainVars, toolVars>>

FoldBack ==
    /\ pc = "unfolded"
    /\ folded_coeffs' = Fold(full)
    /\ pc' = "folded"
    /\ UNCHANGED <<half_coeffs, full, codecVars, quantVars, rewriteVars, gainVars, toolVars>>

FoldNext ==
    \/ Unfold
    \/ UnfoldRaises
    \/ FoldBack

SpecFold == FoldInit /\ [][FoldNext]_vars

Reverse(v) ==
    [i \in 1..Len(v) |-> v[Len(v) + 1 - i]]

AssignKeyword ==
    <<"a","s","s","i","g","n"," ","c","o","e","f","f","i","c","i","e","n",
      "t","s","[">>

\* "16"
WidthDigits ==
    <<"1","6">>

\* "] = 16'h"
AssignMiddle ==
    <<"]"," ","="," ","1","6","'","h">>

DecimalDigit == <<"0","1","2","3","4","5","6","7","8","9">>

RECURSIVE Str(_)
\* str(n) of an integer n >= 0
Str(n) ==
    IF n < 10 THEN <<DecimalDigit[n + 1]>>
    ELSE Str(n \div 10) \o <<DecimalDigit[(n % 10) + 1]>>

\* pat in line
Contains(line, pat) ==
    \E i \in 1..(Len(line) - Len(pat) + 1) :
        SubSeq(line, i, i + Len(pat) - 1) = pat

\* hardware_integration.py:98
LineMatches(line) ==
    Contains(line, AssignKeyword) /\ Contains(line, WidthDigits)

\* Mutant: the replacement line declares an 8-bit literal.
NewLineNarrow(idx, coeff) ==
    AssignKeyword \o Str(idx) \o <<"]"," ","="," ","8","'","h">>
        \o Format04X(HexVal(coeff)) \o <<";">> \o <<"\n">>

\* hardware_integration.py:106-107, the replacement line with its newline
NewLine(idx, coeff) ==
    AssignKeyword \o Str(idx) \o AssignMiddle \o Format04X(HexVal(coeff))
        \o <<";">> \o <<"\n">>

RECURSIVE RewriteFrom(_, _, _, _, _, _)
\* hardware_integration.py:94-112, the loop from line i on
RewriteFrom(ls, q, i, idx, out, rew) ==
    IF i > Len(ls)
    THEN [new_lines |-> out, coeff_index |-> idx, rewritten |-> rew]
    ELSE IF LineMatches(ls[i]) /\ idx < Len(q)
    THEN RewriteFrom(ls, q, i + 1, idx + 1,
                     Append(out, NewLine(idx, q[idx + 1])), rew \cup {i})
    ELSE RewriteFrom(ls, q, i + 1, idx, Append(out, ls[i]), rew)

\* Mutant: coeff_index starts at 1.
RewriteLinesFromOne(ls, q) ==
    RewriteFrom(ls, q, 1, 1, <<>>, {})

\* hardware_integration.py:94-112 with new_lines = [] and coeff_index = 0
RewriteLines(ls, q) ==
    RewriteFrom(ls, q, 1, 0, <<>>, {})

RECURSIVE QuantizeAll(_)
\* hardware_integration.py:88, quantize_coefficients(folded_coeffs) with the
\* default bits and format: the possible vectors.
QuantizeAll(cs) ==
    IF cs = <<>> THEN {<<>>}
    ELSE {<<v>> \o rest : v \in QuantizeCoefficient(Head(cs), 16, "q8.8"),
                          rest \in QuantizeAll(Tail(cs))}

(***************************************************************************)
(* Inputs of the rewrite                                                   *)
(***************************************************************************)
MaxShort == 2
MaxLong == 7
MaxCoeffs == 7

\* "assign coefficients[0] = 16'h0006;\n"
LineAssign ==
    <<"a","s","s","i","g","n"," ","c","o","e","f","f","i","c","i","e","n",
      "t","s","[","0","]"," ","="," ","1","6","'","h","0","0","0","6",";",
      "\n">>

\* "  assign coefficients[1] = 16'hFFFB; // c1\n"
LineIndented ==
    <<" "," ","a","s","s","i","g","n"," ","c","o","e","f","f","i","c","i",
      "e","n","t","s","[","1","]"," ","="," ","1","6","'","h","F","F","F",
      "B",";"," ","/","/"," ","c","1","\n">>

\* "// taps\n"
LineComment ==
    <<"/","/"," ","t","a","p","s","\n">>

\* "// assign coefficients[i]: 16 bit\n"
LineLoose ==
    <<"/","/"," ","a","s","s","i","g","n"," ","c","o","e","f","f","i","c",
      "i","e","n","t","s","[","i","]",":"," ","1","6"," ","b","i","t","\n">>

\* "assign coefficients[16] = 8'hFF;\n"
LineNarrow ==
    <<"a","s","s","i","g","n"," ","c","o","e","f","f","i","c","i","e","n",
      "t","s","[","1","6","]"," ","="," ","8","'","h","F","F",";","\n">>

\* "assign coefficients[2] = 16'hZZ;\n"
LineMalformed ==
    <<"a","s","s","i","g","n"," ","c","o","e","f","f","i","c","i","e","n",
      "t","s","[","2","]"," ","="," ","1","6","'","h","Z","Z",";","\n">>

\* "assign coefficients_q = 16'h0001;\n"
LineOther ==
    <<"a","s","s","i","g","n"," ","c","o","e","f","f","i","c","i","e","n",
      "t","s","_","q"," ","="," ","1","6","'","h","0","0","0","1",";","\n">>

\* "endmodule" (a last line without a newline)
LineLast ==
    <<"e","n","d","m","o","d","u","l","e">>

LineSamples ==
    {LineAssign, LineIndented, LineComment, LineLoose, LineNarrow,
     LineMalformed, LineOther, LineLast}

\* Short texts over every kind of line, and texts with more matched lines
\* than the folded architecture has coefficients.
Texts ==
    UNION {[1..k -> LineSamples] : k \in 0..MaxShort}
    \cup UNION {[1..k -> {LineAssign, LineComment}] : k \in (FOLDED_TAPS + 1)..MaxLong}

\* Coefficients in units of 1 / Resolution: 1.5 LSB, -5 LSB, beyond the
\* 16-bit range, -0.75 LSB, 0, half an LSB, -beyond the range.
CoefCycle ==
    <<6, -20, 131112, -3, 0, 2, -140000>>

CoefficientVectors ==
    {[i \in 1..n |-> [big |-> 0, num |-> CoefCycle[((i - 1) % Len(CoefCycle)) + 1]]] :
        n \in 0..MaxCoeffs}

RewriteInit ==
    /\ pc = "uv_start"
    /\ python_coefficients \in CoefficientVectors
    /\ disk \in Texts
    /\ orig_text = disk
    /\ quantized_coeffs = <<>>
    /\ lines = <<>>
    /\ new_lines = <<>>
    /\ coeff_index = 0
    /\ rewritten = {}
    /\ CodecIdle
    /\ QuantIdle
    /\ FoldIdle
    /\ GainIdle
    /\ ToolIdle

\* lines 86-88
UvQuantize ==
    /\ pc = "uv_start"
    /\ quantized_coeffs' \in QuantizeAll(Fold(python_coefficients))
    /\ pc' = "uv_quantized"
    /\ UNCHANGED <<python_coefficients, disk, orig_text, lines, new_lines,
                   coeff_index, rewritten, codecVars, quantVars, foldVars, gainVars, toolVars>>

\* lines 91-92
UvRead ==
    /\ pc = "uv_quantized"
    /\ lines' = disk
    /\ pc' = "uv_read"
    /\ UNCHANGED <<python_coefficients, disk, orig_text, quantized_coeffs,
                   new_lines, coeff_index, rewritten, codecVars, quantVars, foldVars, gainVars, toolVars>>

\* line 91 raising (the file is missing or unreadable)
UvReadFails ==
    /\ pc = "uv_quantized"
    /\ pc' = "failed"
    /\ UNCHANGED <<rewriteVars, codecVars, quantVars, foldVars, gainVars, toolVars>>

\* lines 94-112
UvRewrite ==
    /\ pc = "uv_read"
    /\ LET r == RewriteLines(lines, quantized_coeffs)
       IN  /\ new_lines' = r.new_lines
           /\ coeff_index' = r.coeff_index
           /\ rewritten' = r.rewritten
    /\ pc' = "uv_computed"
    /\ UNCHANGED <<python_coefficients, disk, orig_text, quantized_coeffs, lines,
                   codecVars, quantVars, foldVars, gainVars, toolVars>>

\* line 114: opening with mode 'w' truncates the file
UvOpenWrite ==
    /\ pc = "uv_computed"
    /\ disk' = <<>>
    /\ pc' = "uv_open"
    /\ UNCHANGED <<python_coefficients, orig_text, quantized_coeffs, lines,
                   new_lines, coeff_index, rewritten, codecVars, quantVars, foldVars, gainVars, toolVars>>

\* line 114 raising (no permission): nothing is truncated
UvOpenFails ==
    /\ pc = "uv_computed"
    /\ pc' = "failed"
    /\ UNCHANGED <<rewriteVars, codecVars, quantVars, foldVars, gainVars, toolVars>>

\* line 115 and the close of the with block
UvWrite ==
    /\ pc = "uv_open"
    /\ disk' = new_lines
    /\ pc' = "done"
    /\ UNCHANGED <<python_coefficients, orig_text, quantized_coeffs, lines,
                   new_lines, coeff_index, rewritten, codecVars, quantVars, foldVars, gainVars, toolVars>>

\* line 115 raising part-way (the device is full, an I/O error): the lines
\* written so far stay in the file
UvWriteFails ==
    /\ pc = "uv_open"
    /\ \E k \in 0..Len(new_lines) :
          /\ k < Len(new_lines) \/ k = 0
          /\ disk' = Take(new_lines, k)
    /\ pc' = "failed"
    /\ UNCHANGED <<python_coefficients, orig_text, quantized_coeffs, lines,
                   new_lines, coeff_index, rewritten, codecVars, quantVars, foldVars, gainVars, toolVars>>

RewriteNext ==
    \/ UvQuantize
    \/ UvRead
    \/ UvReadFails
    \/ UvRewrite
    \/ UvOpenWrite
    \/ UvOpenFails
    \/ UvWrite
    \/ UvWriteFails

SpecRewrite == RewriteInit /\ [][RewriteNext]_vars

\* The assignment shape of the hardware source text: optional leading
\* blanks, assign coefficients[<index>] = 16'h<4 uppercase hex digits>; and
\* anything after the semicolon.
MatchesShape(line) ==
    \E a \in 0..Len(line), d \in 1..Len(line) :
        /\ Len(line) >= a + Len(AssignKeyword) + d + Len(AssignMiddle) + 5
        /\ \A k \in 1..a : line[k] = " "
        /\ SubSeq(line, a + 1, a + Len(AssignKeyword)) = AssignKeyword
        /\ LET i0 == a + Len(AssignKeyword)
               m0 == i0 + d
               h0 == m0 + Len(AssignMiddle)
           IN  /\ \A k \in (i0 + 1)..m0 : \E e \in 1..10 : DecimalDigit[e] = line[k]
               /\ SubSeq(line, m0 + 1, h0) = AssignMiddle
               /\ \A k \in (h0 + 1)..(h0 + 4) : \E e \in 1..16 : UpperHex[e] = line[k]
               /\ line[h0 + 5] = ";"

\* C2: every line that does not have the assignment shape is byte-identical,
\* at the same position, in the text update_verilog_file writes.
RewritePassthrough ==
    pc = "done" =>
        \A i \in 1..Len(orig_text) :
            ~MatchesShape(orig_text[i]) =>
                i <= Len(disk) /\ disk[i] = orig_text[i]

\* C3: whenever update_verilog_file has ended, normally or by a failure, the
\* stored file is the complete original text or the complete rewritten text.
AllOrNothing ==
    pc \in {"done", "failed"} =>
        \/ disk = orig_text
        \/ disk = RewriteLines(orig_text, quantized_coeffs).new_lines

Min(a, b) ==
    IF a < b THEN a ELSE b

\* Positions of the lines the routine's test selects
MatchedPositions(text) ==
    {i \in 1..Len(text) : LineMatches(text[i])}

\* Rank of position i among the matched positions (1 for the first)
MatchRank(text, i) ==
    Cardinality({j \in MatchedPositions(text) : j <= i})

FirstMatched(text, n) ==
    {i \in MatchedPositions(text) : MatchRank(text, i) <= n}

\* What the rewrite count is claimed to be for n rewritten lines: the first n
\* matched lines are replaced by the encodings of the first n quantized
\* coefficients, every other line is kept, none is deleted.
RewritesExactly(n) ==
    /\ coeff_index = n
    /\ rewritten = FirstMatched(orig_text, n)
    /\ Len(disk) = Len(orig_text)
    /\ \A i \in 1..Len(orig_text) :
          IF i \in rewritten
          THEN disk[i] = NewLine(MatchRank(orig_text, i) - 1,
                                 quantized_coeffs[MatchRank(orig_text, i)])
          ELSE disk[i] = orig_text[i]

\* C4 as claimed: with M matched lines and L coefficients, exactly min(M, L)
\* lines are rewritten.
RewriteCount ==
    pc = "done" =>
        RewritesExactly(Min(Cardinality(MatchedPositions(orig_text)),
                            Len(python_coefficients)))

\* C4 amended: exactly min(M, min(L, 6)) lines are rewritten, the first ones
\* in file order; the other matched lines are kept unmodified.
RewriteCountFolded ==
    pc = "done" =>
        RewritesExactly(Min(Cardinality(MatchedPositions(orig_text)),
                            Min(Len(python_coefficients), FOLDED_TAPS)))

RewriteCountWitness ==
    /\ pc = "done"
    /\ Cardinality(MatchedPositions(orig_text)) > FOLDED_TAPS
    /\ Len(python_coefficients) > FOLDED_TAPS
    /\ coeff_index = FOLDED_TAPS
    /\ disk # orig_text

(***************************************************************************)
(* GainCompensationSolver: generate_optimized_coefficients                  *)
(* Coefficients are tenths: matlab_coeffs[i] stands for matlab_coeffs[i]/10.*)
(***************************************************************************)
\* fir_verification.py:197, current_gain_after_fixed_point = 0.609375 = 39/64
FIXED_POINT_GAIN_NUM == 39
FIXED_POINT_GAIN_DEN == 64

GainDen == 5 * 2

GainMinLen == FOLDED_TAPS - 1
MaxGainLen == 6
MaxGainNum == 3

RECURSIVE SumSeq(_)
SumSeq(v) ==
    IF v = <<>> THEN 0 ELSE Head(v) + SumSeq(Tail(v))

\* lines 192-200: stage1 = 1 / sum(coeffs), stage2 = 1 / 0.609375,
\* total = stage1 * stage2, as a fraction.
TotalCompensation(cs) ==
    [num |-> GainDen * FIXED_POINT_GAIN_DEN,
     den |-> SumSeq(cs) * FIXED_POINT_GAIN_NUM]

\* lines 209-216 for one coefficient n / 10:
\* int(np.clip(np.round(c * total * 256), -32768, 32767))
OptimizedValue(n, total) ==
    Clip(RoundHalfEven(n * total.num * 256, GainDen * total.den),
         INT16_MIN, INT16_MAX)

GainInputs ==
    UNION {[1..k -> 1..MaxGainNum] : k \in GainMinLen..MaxGainLen}

GainInit ==
    /\ pc = "gain_start"
    /\ matlab_coeffs \in GainInputs
    /\ total_compensation = [num |-> 1, den |-> 1]
    /\ opt_coeffs_fixed = <<>>
    /\ verdict = ""
    /\ CodecIdle
    /\ QuantIdle
    /\ FoldIdle
    /\ RewriteIdle
    /\ ToolIdle

\* lines 192-200
GainScale ==
    /\ pc = "gain_start"
    /\ total_compensation' = TotalCompensation(matlab_coeffs)
    /\ pc' = "gain_scaled"
    /\ UNCHANGED <<matlab_coeffs, opt_coeffs_fixed, verdict,
                   codecVars, quantVars, foldVars, rewriteVars, toolVars>>

\* lines 214-225: the loop over range(6)
GainFixedPoint ==
    /\ pc = "gain_scaled"
    /\ Len(matlab_coeffs) >= FOLDED_TAPS
    /\ opt_coeffs_fixed' =
          [i \in 1..FOLDED_TAPS |-> OptimizedValue(matlab_coeffs[i], total_compensation)]
    /\ pc' = "gain_fixed"
    /\ UNCHANGED <<matlab_coeffs, total_compensation, verdict,
                   codecVars, quantVars, foldVars, rewriteVars, toolVars>>

\* line 216 raising IndexError: coeffs_scaled[i] with fewer than 6 entries;
\* only FileNotFoundError is caught (line 235)
GainIndexError ==
    /\ pc = "gain_scaled"
    /\ Len(matlab_coeffs) < FOLDED_TAPS
    /\ opt_coeffs_fixed' =
          [i \in 1..Len(matlab_coeffs) |->
              OptimizedValue(matlab_coeffs[i], total_compensation)]
    /\ pc' = "IndexError"
    /\ UNCHANGED <<matlab_coeffs, total_compensation, verdict,
                   codecVars, quantVars, foldVars, rewriteVars, toolVars>>

\* lines 227-233: final_gain = sum(coeffs_fixed / 256.0);
\* abs(final_gain - 1.0) < 0.01
GainReport ==
    /\ pc = "gain_fixed"
    /\ verdict' = IF 100 * Abs(SumSeq(opt_coeffs_fixed) - 256) < 256
                  THEN "SUCCESS" ELSE "ADJUST NEEDED"
    /\ pc' = "gain_done"
    /\ UNCHANGED <<matlab_coeffs, total_compensation, opt_coeffs_fixed,
                   codecVars, quantVars, foldVars, rewriteVars, toolVars>>

GainNext ==
    \/ GainScale
    \/ GainFixedPoint
    \/ GainIndexError
    \/ GainReport

SpecGain == GainInit /\ [][GainNext]_vars

\* Sum of the quantized values of coeffs * scale, in LSBs of Q8.8
QuantizedGain(cs, total) ==
    SumSeq([i \in 1..Len(cs) |-> OptimizedValue(cs[i], total)])

\* C10: for coeffs = [0.1, 0.2, 0.3, 0.2, 0.1] the routine produces a scale
\* whose quantized coefficients sum to within 0.01 of 1.0.
GainConvergence ==
    matlab_coeffs = <<1, 2, 3, 2, 1>> =>
        /\ pc # "IndexError"
        /\ pc # "gain_start" =>
              100 * Abs(QuantizedGain(matlab_coeffs, total_compensation) - 256) < 256

CodecInit ==
    /\ pc = "codec_start"
    /\ raw \in INT16_MIN..INT16_MAX
    /\ hex_text = <<>>
    /\ int_val = 0
    /\ QuantIdle
    /\ FoldIdle
    /\ RewriteIdle
    /\ GainIdle
    /\ ToolIdle

Encode ==
    /\ pc = "codec_start"
    /\ hex_text' = EncodeLiteral(raw)
    /\ pc' = "encoded"
    /\ UNCHANGED <<raw, int_val, quantVars, foldVars, rewriteVars, gainVars, toolVars>>

Decode ==
    /\ pc = "encoded"
    /\ int_val' = DecodeLiteral(hex_text)
    /\ pc' = "decoded"
    /\ UNCHANGED <<raw, hex_text, quantVars, foldVars, rewriteVars, gainVars, toolVars>>

CodecNext ==
    \/ Encode
    \/ Decode

SpecCodec == CodecInit /\ [][CodecNext]_vars

\* C1: decoding the literal encoded for raw gives back raw, for every raw of
\* the signed 16-bit range.
HexRoundTrip ==
    pc = "decoded" => int_val = raw

HexRoundTripWitness ==
    pc = "decoded" /\ raw < 0 /\ int_val = raw

\* C9: the encoded literal is four uppercase hexadecimal digits whose
\* unsigned value is raw (raw >= 0) or raw + 65536 (raw < 0); -5 gives FFFB.
EncodeFormat ==
    pc = "encoded" =>
        /\ Len(hex_text) = 4
        /\ \A k \in 1..Len(hex_text) : \E d \in 1..16 : UpperHex[d] = hex_text[k]
        /\ IntBase16(hex_text) = IF raw >= 0 THEN raw ELSE raw + WRAP16
        /\ (raw = -5 => hex_text = <<"F", "F", "F", "B">>)

EncodeFormatWitness ==
    pc = "encoded" /\ raw = -5 /\ hex_text = <<"F", "F", "F", "B">>

(***************************************************************************)
(* FilterComparator: compare_filter_performance                             *)
(* max_error is a number of thousandths, [num |-> n, den |-> ErrorUnit];    *)
(* an extracted coefficient is [num |-> int_val, den |-> 256].              *)
(***************************************************************************)
\* fir_verification.py:147, 0.01 = 1 / 100
PASS_THRESHOLD_DEN == 100

\* fir_verification.py:149, 0.1 = 1 / 10
GOOD_THRESHOLD_DEN == 10

ErrorUnit == 10 * 100

MaxErrorNum == 500
MaxExtracted == 7

\* Mutant: the first threshold is inclusive.
ClassifyInclusive(e) ==
    IF e.num * PASS_THRESHOLD_DEN <= e.den THEN "PASS"
    ELSE IF e.num * GOOD_THRESHOLD_DEN < e.den THEN "GOOD"
    ELSE "CHECK"

\* fir_verification.py:147-152
Classify(e) ==
    IF e.num * PASS_THRESHOLD_DEN < e.den THEN "PASS"
    ELSE IF e.num * GOOD_THRESHOLD_DEN < e.den THEN "GOOD"
    ELSE "CHECK"

\* matlab_coeffs with five and with six entries, in tenths
CompareReferences ==
    {<<1, 2, 3, 2, 1>>, <<1, 2, 3, 3, 2, 1>>}

CompareInit ==
    /\ pc = "cmp_start"
    /\ matlab_coeffs \in CompareReferences
    /\ verilog_coeffs \in {[i \in 1..k |-> [num |-> i, den |-> 2 ^ 8]] : k \in 0..MaxExtracted}
    /\ total_compensation = [num |-> 1, den |-> 1]
    /\ opt_coeffs_fixed = <<>>
    /\ verdict = ""
    /\ CompareIdle
    /\ PipeIdle
    /\ PathIdle
    /\ CodecIdle
    /\ QuantIdle
    /\ FoldIdle
    /\ RewriteIdle

\* lines 71-73: nothing was extracted, the comparison is skipped
CompareSkips ==
    /\ pc = "cmp_start"
    /\ verilog_coeffs = <<>>
    /\ pc' = "cmp_skipped"
    /\ UNCHANGED <<codecVars, quantVars, foldVars, rewriteVars, gainVars, toolVars>>

\* lines 76-77: create_symmetric_coeffs indexes [0] .. [5] of both vectors
CompareRaises ==
    /\ pc = "cmp_start"
    /\ verilog_coeffs # <<>>
    /\ ~IndexesExist(matlab_coeffs) \/ ~IndexesExist(verilog_coeffs)
    /\ pc' = "IndexError"
    /\ UNCHANGED <<codecVars, quantVars, foldVars, rewriteVars, gainVars, toolVars>>

\* lines 76-152: the responses are computed and compared, max_error (line
\* 141) is whatever the two responses give, and one class is printed
CompareClassify ==
    /\ pc = "cmp_start"
    /\ IndexesExist(matlab_coeffs)
    /\ IndexesExist(verilog_coeffs)
    /\ \E n \in 0..MaxErrorNum :
          /\ max_error' = [num |-> n, den |-> ErrorUnit]
          /\ classification' = Classify([num |-> n, den |-> ErrorUnit])
    /\ pc' = "classified"
    /\ UNCHANGED <<codecVars, quantVars, foldVars, rewriteVars, gainVars,
                   extractVars, pipeVars, pathVars>>

CompareNext ==
    \/ CompareSkips
    \/ CompareRaises
    \/ CompareClassify

SpecCompare == CompareInit /\ [][CompareNext]_vars

\* C11: a comparison that reaches the classification prints exactly one
\* class: PASS iff max_error < 0.01, GOOD iff 0.01 <= max_error < 0.1, CHECK
\* iff max_error >= 0.1; 0.005 is PASS, 0.05 is GOOD, 0.5 is CHECK.
ErrorClassification ==
    pc = "classified" =>
        /\ classification \in {"PASS", "GOOD", "CHECK"}
        /\ classification = "PASS" <=> 100 * max_error.num < max_error.den
        /\ classification = "GOOD" <=>
              /\ 100 * max_error.num >= max_error.den
              /\ 10 * max_error.num < max_error.den
        /\ classification = "CHECK" <=> 10 * max_error.num >= max_error.den
        /\ (200 * max_error.num = max_error.den => classification = "PASS")
        /\ (20 * max_error.num = max_error.den => classification = "GOOD")
        /\ (2 * max_error.num = max_error.den => classification = "CHECK")

ErrorClassificationWitness ==
    /\ pc = "classified"
    /\ 100 * max_error.num = max_error.den
    /\ classification = "GOOD"

(***************************************************************************)
(* CoefficientStore: extract_verilog_coefficients, and update_verilog_file  *)
(* run on the file it has written                                           *)
(***************************************************************************)
\* "assign coefficients" (fir_verification.py:56)
ExtractKeyword ==
    <<"a","s","s","i","g","n"," ","c","o","e","f","f","i","c","i","e","n",
      "t","s">>

\* "16'h" (fir_verification.py:57)
LiteralPrefix ==
    <<"1","6","'","h">>

\* line.find(pat) + 1 for a pat that occurs in line
FirstIndex(line, pat) ==
    CHOOSE i \in 1..(Len(line) - Len(pat) + 1) :
        /\ SubSeq(line, i, i + Len(pat) - 1) = pat
        /\ \A j \in 1..(i - 1) : SubSeq(line, j, j + Len(pat) - 1) # pat

\* line.split(pat)[1] for a pat that occurs in line: the text between its
\* first occurrence and the next one
SplitSecond(line, pat) ==
    LET rest == SubSeq(line, FirstIndex(line, pat) + Len(pat), Len(line))
    IN  IF Contains(rest, pat)
        THEN SubSeq(rest, 1, FirstIndex(rest, pat) - 1)
        ELSE rest

\* fir_verification.py:56
ExtractLineMatches(line) ==
    Contains(line, ExtractKeyword) /\ Contains(line, WidthDigits)

\* The extraction in which a literal that does not parse is skipped: the
\* values of the lines whose literal parses, in file order.
ExtractSkipping(ls) ==
    LET good == SelectSeq(ls, LAMBDA l :
                    /\ ExtractLineMatches(l)
                    /\ Contains(l, LiteralPrefix)
                    /\ DecodeLiteral(SplitSecond(l, LiteralPrefix)) # ValueError)
    IN  [coeffs |-> [k \in 1..Len(good) |->
                        [num |-> DecodeLiteral(SplitSecond(good[k], LiteralPrefix)),
                         den |-> 2 ^ 8]],
         error |-> ""]

RECURSIVE ExtractFrom(_, _, _)
\* fir_verification.py:55-63, the loop from line i on; error names the
\* exception that int() raised at line 60, if any
ExtractFrom(ls, i, out) ==
    IF i > Len(ls) THEN [coeffs |-> out, error |-> ""]
    ELSE IF ExtractLineMatches(ls[i]) /\ Contains(ls[i], LiteralPrefix)
    THEN LET v == DecodeLiteral(SplitSecond(ls[i], LiteralPrefix))
         IN  IF v = ValueError
             THEN [coeffs |-> out, error |-> "ValueError"]
             ELSE ExtractFrom(ls, i + 1, Append(out, [num |-> v, den |-> 2 ^ 8]))
    ELSE ExtractFrom(ls, i + 1, out)

\* fir_verification.py:52-64 on a file that exists
ExtractVerilogCoefficients(ls) ==
    ExtractFrom(ls, 1, <<>>)

\* extract_verilog_coefficients returning, on the file as found or on the
\* file update_verilog_file has written
ExtractReturns ==
    /\ pc \in {"uv_start", "done"}
    /\ ExtractVerilogCoefficients(disk).error = ""
    /\ verilog_coeffs' = ExtractVerilogCoefficients(disk).coeffs
    /\ pc' = IF pc = "uv_start" THEN "extracted" ELSE "extracted_back"
    /\ UNCHANGED <<codecVars, quantVars, foldVars, rewriteVars, gainVars,
                   compareVars, pipeVars, pathVars>>

\* line 60 raising ValueError; only FileNotFoundError is caught (line 65)
ExtractRaises ==
    /\ pc \in {"uv_start", "done"}
    /\ ExtractVerilogCoefficients(disk).error = "ValueError"
    /\ pc' = IF pc = "uv_start" THEN "ValueError" ELSE "ValueError_back"
    /\ UNCHANGED <<codecVars, quantVars, foldVars, rewriteVars, gainVars, toolVars>>

\* update_verilog_file called a second time with the same coefficients on
\* the file its first call has written, both calls completing
UvSecondRun ==
    /\ pc = "done"
    /\ \E q \in QuantizeAll(Fold(python_coefficients)) :
          disk' = RewriteLines(disk, q).new_lines
    /\ pc' = "done_again"
    /\ UNCHANGED <<python_coefficients, orig_text, quantized_coeffs, lines,
                   new_lines, coeff_index, rewritten, codecVars, quantVars,
                   foldVars, gainVars, toolVars>>

StoreNext ==
    \/ RewriteNext
    \/ UvSecondRun
    \/ ExtractReturns
    \/ ExtractRaises

SpecStore == RewriteInit /\ [][StoreNext]_vars

\* Whether the text holds 16'h followed by four hexadecimal digits
HasLiteral(line) ==
    \E i \in 1..(Len(line) - Len(LiteralPrefix) - 3) :
        /\ SubSeq(line, i, i + Len(LiteralPrefix) - 1) = LiteralPrefix
        /\ \A k \in (i + Len(LiteralPrefix))..(i + Len(LiteralPrefix) + 3) :
              HexDigitValue(line[k]) # ValueError

\* A line carrying the assignment keyword without such a literal
Malformed(line) ==
    Contains(line, ExtractKeyword) /\ ~HasLiteral(line)

\* C12: a line carrying the assignment keyword whose literal is not 16'h and
\* four hexadecimal digits is skipped by extract_verilog_coefficients, which
\* raises no error, and is written back unchanged by update_verilog_file,
\* which spends no coefficient on it.
MalformedSkipped ==
    /\ pc \notin {"ValueError", "ValueError_back"}
    /\ pc = "extracted" =>
          verilog_coeffs = ExtractSkipping(orig_text).coeffs
    /\ pc = "done" =>
          \A i \in 1..Len(orig_text) :
              Malformed(orig_text[i]) =>
                  /\ i \notin rewritten
                  /\ i <= Len(disk)
                  /\ disk[i] = orig_text[i]

(***************************************************************************)
(* Pipeline entry points: fir_verification.py run as a script               *)
(* (verify_verilog_against_matlab, then generate_optimized_coefficients)    *)
(* and main.py (create_all_plots)                                           *)
(***************************************************************************)
MaxPipeLines == 1

\* The Verilog file: short texts over every kind of line, and a text with
\* the six assignments of the folded architecture
PipelineTexts ==
    UNION {[1..k -> LineSamples] : k \in 0..MaxPipeLines}
    \cup {[i \in 1..FOLDED_TAPS |-> LineAssign]}

\* coefficients[:6] of main.py:101
PipelineCoefficients ==
    [i \in 1..FOLDED_TAPS |-> [big |-> 0, num |-> CoefCycle[i]]]

\* fir_coefficients.csv, in tenths
CsvContent ==
    <<1, 2, 3, 3, 2, 1>>

PipelineInit ==
    /\ entry \in {"fir_verification", "main"}
    /\ pc = IF entry = "main" THEN "main_start" ELSE "fv_start"
    /\ csv_present \in BOOLEAN
    /\ verilog_present \in BOOLEAN
    /\ disk \in IF verilog_present THEN PipelineTexts ELSE {<<>>}
    /\ orig_text = disk
    /\ python_coefficients = PipelineCoefficients
    /\ quantized_coeffs = <<>>
    /\ lines = <<>>
    /\ new_lines = <<>>
    /\ coeff_index = 0
    /\ rewritten = {}
    /\ executed = {}
    /\ reported = {}
    /\ CompareIdle
    /\ ExtractIdle
    /\ PathIdle
    /\ GainIdle
    /\ CodecIdle
    /\ QuantIdle
    /\ FoldIdle

\* fir_verification.py:28-31
FvLoad ==
    /\ pc = "fv_start"
    /\ csv_present
    /\ matlab_coeffs' = CsvContent
    /\ pc' = "fv_loaded"
    /\ UNCHANGED <<total_compensation, opt_coeffs_fixed, verdict, codecVars,
                   quantVars, foldVars, rewriteVars, toolVars>>

\* line 28 raising FileNotFoundError, caught at lines 46-48: the rest of the
\* try block is left
FvLoadMissing ==
    /\ pc = "fv_start"
    /\ ~csv_present
    /\ reported' = reported \cup {"csv"}
    /\ pc' = "fv_verified"
    /\ UNCHANGED <<entry, csv_present, verilog_present, executed, codecVars,
                   quantVars, foldVars, rewriteVars, gainVars, compareVars,
                   extractVars, pathVars>>

\* line 34, extract_verilog_coefficients returning the values of the file
FvExtract ==
    /\ pc = "fv_loaded"
    /\ verilog_present
    /\ ExtractVerilogCoefficients(disk).error = ""
    /\ verilog_coeffs' = ExtractVerilogCoefficients(disk).coeffs
    /\ pc' = "fv_extracted"
    /\ UNCHANGED <<codecVars, quantVars, foldVars, rewriteVars, gainVars,
                   compareVars, pipeVars, pathVars>>

\* line 34, int() raising ValueError inside extract_verilog_coefficients:
\* neither handler catches it
FvExtractRaises ==
    /\ pc = "fv_loaded"
    /\ verilog_present
    /\ ExtractVerilogCoefficients(disk).error = "ValueError"
    /\ pc' = "ValueError"
    /\ UNCHANGED <<codecVars, quantVars, foldVars, rewriteVars, gainVars, toolVars>>

\* line 34 with the file absent: lines 65-67 print and return an empty array
FvExtractMissing ==
    /\ pc = "fv_loaded"
    /\ ~verilog_present
    /\ verilog_coeffs' = <<>>
    /\ reported' = reported \cup {"verilog"}
    /\ pc' = "fv_extracted"
    /\ UNCHANGED <<entry, csv_present, verilog_present, executed, codecVars,
                   quantVars, foldVars, rewriteVars, gainVars, compareVars,
                   pathVars>>

\* line 40, compare_filter_performance skipping (lines 71-73) or classifying
FvCompare ==
    /\ pc = "fv_extracted"
    /\ verilog_coeffs = <<>> \/ IndexesExist(verilog_coeffs)
    /\ IF verilog_coeffs = <<>>
       THEN UNCHANGED compareVars
       ELSE \E n \in 0..MaxErrorNum :
               /\ max_error' = [num |-> n, den |-> ErrorUnit]
               /\ classification' = Classify([num |-> n, den |-> ErrorUnit])
    /\ executed' = IF verilog_present THEN executed \cup {"verify"} ELSE executed
    /\ pc' = "fv_verified"
    /\ UNCHANGED <<entry, csv_present, verilog_present, reported, codecVars,
                   quantVars, foldVars, rewriteVars, gainVars, extractVars,
                   pathVars>>

\* line 40 raising IndexError (lines 76-77): fewer than six values extracted
FvCompareRaises ==
    /\ pc = "fv_extracted"
    /\ verilog_coeffs # <<>>
    /\ ~IndexesExist(verilog_coeffs)
    /\ pc' = "IndexError"
    /\ UNCHANGED <<codecVars, quantVars, foldVars, rewriteVars, gainVars, toolVars>>

\* fir_verification.py:253, generate_optimized_coefficients with the file
\* present (lines 187-233)
FvOptimize ==
    /\ pc = "fv_verified"
    /\ csv_present
    /\ matlab_coeffs' = CsvContent
    /\ total_compensation' = TotalCompensation(CsvContent)
    /\ opt_coeffs_fixed' =
          [i \in 1..FOLDED_TAPS |->
              OptimizedValue(CsvContent[i], TotalCompensation(CsvContent))]
    /\ verdict' =
          IF 100 * Abs(QuantizedGain(SubSeq(CsvContent, 1, FOLDED_TAPS),
                                     TotalCompensation(CsvContent)) - 256) < 256
          THEN "SUCCESS" ELSE "ADJUST NEEDED"
    /\ executed' = executed \cup {"optimize"}
    /\ pc' = "fv_done"
    /\ UNCHANGED <<entry, csv_present, verilog_present, reported, codecVars,
                   quantVars, foldVars, rewriteVars, compareVars, extractVars,
                   pathVars>>

\* line 187 raising FileNotFoundError, caught at lines 235-236
FvOptimizeMissing ==
    /\ pc = "fv_verified"
    /\ ~csv_present
    /\ reported' = reported \cup {"csv"}
    /\ pc' = "fv_done"
    /\ UNCHANGED <<entry, csv_present, verilog_present, executed, codecVars,
                   quantVars, foldVars, rewriteVars, gainVars, compareVars,
                   extractVars, pathVars>>

\* main.py:51-96, steps 1 to 6: none reads either artifact
MainPlots ==
    /\ pc = "main_start"
    /\ executed' = executed \cup {"plots"}
    /\ pc' = "main_plotted"
    /\ UNCHANGED <<entry, csv_present, verilog_present, reported, codecVars,
                   quantVars, foldVars, rewriteVars, gainVars, compareVars,
                   extractVars, pathVars>>

\* main.py:99-101, step 7: update_verilog_file on the file that exists
MainUpdate ==
    /\ pc = "main_plotted"
    /\ verilog_present
    /\ \E q \in QuantizeAll(Fold(python_coefficients)) :
          LET r == RewriteLines(disk, q)
          IN  /\ quantized_coeffs' = q
              /\ lines' = disk
              /\ new_lines' = r.new_lines
              /\ coeff_index' = r.coeff_index
              /\ rewritten' = r.rewritten
              /\ disk' = r.new_lines
    /\ executed' = executed \cup {"update_verilog"}
    /\ pc' = "main_updated"
    /\ UNCHANGED <<python_coefficients, orig_text, entry, csv_present,
                   verilog_present, reported, codecVars, quantVars, foldVars,
                   gainVars, compareVars, extractVars, pathVars>>

\* main.py:101 with the file absent: open() at hardware_integration.py:91
\* raises FileNotFoundError; update_verilog_file, create_all_plots and the
\* script body have no handler
MainUpdateMissing ==
    /\ pc = "main_plotted"
    /\ ~verilog_present
    /\ \E q \in QuantizeAll(Fold(python_coefficients)) : quantized_coeffs' = q
    /\ pc' = "FileNotFoundError"
    /\ UNCHANGED <<python_coefficients, disk, orig_text, lines, new_lines,
                   coeff_index, rewritten, codecVars, quantVars, foldVars,
                   gainVars, toolVars>>

\* main.py:104-105, step 8
MainTestVectors ==
    /\ pc = "main_updated"
    /\ executed' = executed \cup {"test_vectors"}
    /\ pc' = "main_done"
    /\ UNCHANGED <<entry, csv_present, verilog_present, reported, codecVars,
                   quantVars, foldVars, rewriteVars, gainVars, compareVars,
                   extractVars, pathVars>>

PipelineNext ==
    \/ FvLoad
    \/ FvLoadMissing
    \/ FvExtract
    \/ FvExtractRaises
    \/ FvExtractMissing
    \/ FvCompare
    \/ FvCompareRaises
    \/ FvOptimize
    \/ FvOptimizeMissing
    \/ MainPlots
    \/ MainUpdate
    \/ MainUpdateMissing
    \/ MainTestVectors

SpecPipeline == PipelineInit /\ [][PipelineNext]_vars

\* The steps of an entry point and the artifacts each one reads
StepsOf(e) ==
    IF e = "main" THEN {"plots", "update_verilog", "test_vectors"}
    ELSE {"verify", "optimize"}

Needs(step) ==
    CASE step = "verify" -> {"csv", "verilog"}
      [] step = "optimize" -> {"csv"}
      [] step = "update_verilog" -> {"verilog"}
      [] OTHER -> {}

Absent ==
    (IF csv_present THEN {} ELSE {"csv"})
    \cup (IF verilog_present THEN {} ELSE {"verilog"})

\* C13: with the coefficient file or the Verilog file absent, no entry point
\* ends in an uncaught FileNotFoundError; it runs to its end, every step that
\* reads no missing artifact is executed, and every step that reads one is
\* skipped with a message naming a missing artifact.
MissingArtifactRecoverable ==
    /\ pc # "FileNotFoundError"
    /\ pc \in {"fv_done", "main_done"} =>
          \A step \in StepsOf(entry) :
              IF Needs(step) \cap Absent = {}
              THEN step \in executed
              ELSE /\ step \notin executed
                   /\ reported \cap Needs(step) \cap Absent # {}

\* C14: calling update_verilog_file a second time with the same coefficients
\* on the text its first call wrote leaves that text unchanged.
IdempotentRewrite ==
    pc = "done_again" => disk = new_lines

IdempotentRewriteWitness ==
    /\ pc = "done_again"
    /\ disk = new_lines
    /\ disk # orig_text
    /\ rewritten # {}
    /\ MatchedPositions(orig_text) \ rewritten # {}

\* The line with the four characters after its first 16'h replaced by the
\* literal of coeff and every other character kept
ReplacePayload(line, coeff) ==
    LET h == FirstIndex(line, LiteralPrefix) + Len(LiteralPrefix)
    IN  SubSeq(line, 1, h - 1) \o EncodeLiteral(coeff)
            \o SubSeq(line, h + 4, Len(line))

\* C15: a rewritten assignment line differs from the original line in the
\* four hexadecimal digits after 16'h only: leading whitespace, the index in
\* brackets, a trailing comment and the line terminator are kept.
PayloadOnlyReplacement ==
    pc = "done" =>
        \A i \in rewritten :
            MatchesShape(orig_text[i]) =>
                disk[i] = ReplacePayload(orig_text[i],
                                         quantized_coeffs[MatchRank(orig_text, i)])

\* The gain measured on the input: the sum, in LSBs of Q8.8, of the
\* quantized values of coeffs * stage1, stage1 = 1 / sum(coeffs)
MeasuredGain(cs) ==
    SumSeq([i \in 1..Len(cs) |->
               Clip(RoundHalfEven(cs[i] * 256, SumSeq(cs)), INT16_MIN, INT16_MAX)])

\* C16: the scale generate_optimized_coefficients computes is stage1 * stage2
\* with stage1 = 1 / sum(coeffs) and stage2 = 1 / g, g being the gain of the
\* quantized coeffs * stage1 measured on that very input:
\* scale = (GainDen / S) * (256 / MeasuredGain).
MeasuredStageTwo ==
    pc \in {"gain_scaled", "gain_fixed", "gain_done", "IndexError"} =>
        total_compensation.num * SumSeq(matlab_coeffs) * MeasuredGain(matlab_coeffs)
            = total_compensation.den * GainDen * 256

RECURSIVE Log2(_)
\* The number of fractional bits of a scale 2^f
Log2(n) ==
    IF n <= 1 THEN 0 ELSE 1 + Log2(n \div 2)

\* C17: in every call the program makes of quantize_coefficients (all leave
\* format at its default 'q8.8'; bits is 16, or 8, 12, 16, 24 in
\* plot_quantization_effects) the clamp range min_val..max_val is that of a
\* signed format with total_bits >= fractional_bits + 1, fractional_bits
\* being log2 of the scale.
FormatInvariant ==
    (pc = "quantized" /\ format = "q8.8") =>
        /\ MinVal(bits) = -(2 ^ (bits - 1))
        /\ MaxVal(bits) = 2 ^ (bits - 1) - 1
        /\ bits >= Log2(ScaleOf(bits, format)) + 1

\* C18: for every coefficient the literal printed is the same on the three
\* paths: update_verilog_file, generate_optimized_coefficients and the
\* conversion script.
PathsAgree ==
    pc = "hex_script" =>
        /\ literals.update = literals.optimized
        /\ literals.optimized = literals.script

\* Positions of the lines extract_verilog_coefficients takes a value from
ExtractedPositions(text) ==
    {i \in 1..Len(text) :
        ExtractLineMatches(text[i]) /\ Contains(text[i], LiteralPrefix)}

\* C19: with at least as many coefficients as update_verilog_file matches
\* lines, extract_verilog_coefficients on the rewritten text returns, in file
\* order, exactly raw_k / 256 of the quantized coefficients written, one per
\* rewritten line and nothing else, and takes its values from exactly the
\* lines update_verilog_file matched.
RewriteExtractRoundTrip ==
    Len(python_coefficients) >= Cardinality(MatchedPositions(orig_text)) =>
        /\ pc # "ValueError_back"
        /\ pc = "extracted_back" =>
              /\ verilog_coeffs =
                    [k \in 1..coeff_index |->
                        [num |-> quantized_coeffs[k], den |-> 2 ^ 8]]
              /\ Len(verilog_coeffs) = Cardinality(rewritten)
              /\ ExtractedPositions(disk) = MatchedPositions(orig_text)

====
